---- MODULE Spec2Model ----
(***************************************************************************)
(* FloodSync API (floodsync_api.py): two FastAPI handlers, GET /countries  *)
(* and POST /flood_map, that build Earth Engine expressions and            *)
(* materialize them with remote calls.  The remote backend is an opaque    *)
(* collaborator: every materializing call either returns a value or raises *)
(* an exception carrying a message.  Each remote round trip is one step of *)
(* the handler that issued it.                                             *)
(***************************************************************************)
EXTENDS Integers, Sequences, FiniteSets, TLC

VARIABLES countries,      \* module-level catalog reference (line 15)
          http_str,       \* which HTTPException.__str__ the installed framework has
          pc,             \* per connection: position of the handler
          request,        \* per connection: the request being served
          now,            \* per connection: value of datetime.now() (line 42)
          locals,         \* per connection: start_date, end_date, geojson, tile_url
          result,         \* per connection: the result dict (lines 50-56)
          calls,          \* per connection: remote materialization calls issued so far
          response        \* per connection: the HTTP response, once produced

vars == <<countries, http_str, pc, request, now, locals, result, calls, response>>

(***************************************************************************)
(* Bounds of the model.                                                    *)
(***************************************************************************)
MaxObs == 1            \* the size query answers 0..MaxObs
MaxRaw == 3            \* the area query answers k * RawStep, k in 0..MaxRaw
MaxCatalogLen == 3     \* the remote catalog holds at most this many features

Conns == {"a", "b"}    \* connections served at the same time

(***************************************************************************)
(* Python values.  Every kind of value has its own field name, so values   *)
(* of different kinds are unequal.                                         *)
(***************************************************************************)
None == [none |-> TRUE]
PyStr(s) == [str |-> s]
PyInt(n) == [int |-> n]
\* the text "YYYY-MM-DD", kept as its three numeric fields
DateStr(y, m, d) == [date |-> <<y, m, d>>]
EmptyStr == PyStr("")

\* truthiness as used by `not x` and `x or y`
Falsy(x) == x = None \/ x = EmptyStr

(***************************************************************************)
(* datetime arithmetic (datetime - timedelta(days=30), strftime).          *)
(***************************************************************************)
IsLeap(y) == (y % 4 = 0) /\ ((y % 100 # 0) \/ (y % 400 = 0))

DaysInMonth(y, m) ==
    IF m = 2 THEN (IF IsLeap(y) THEN 29 ELSE 28)
    ELSE IF m \in {4, 6, 9, 11} THEN 30 ELSE 31

DaysBeforeYear(y) ==
    (y - 1) * 365 + ((y - 1) \div 4) - ((y - 1) \div 100) + ((y - 1) \div 400)

RECURSIVE DaysBeforeMonth(_, _)
DaysBeforeMonth(y, m) ==
    IF m = 1 THEN 0 ELSE DaysBeforeMonth(y, m - 1) + DaysInMonth(y, m - 1)

Ymd2Ord(dt) == DaysBeforeYear(dt.year) + DaysBeforeMonth(dt.year, dt.month) + dt.day

RECURSIVE YearOfOrd(_, _)
YearOfOrd(n, y) == IF n > DaysBeforeYear(y + 1) THEN YearOfOrd(n, y + 1) ELSE y

RECURSIVE MonthOfOrd(_, _, _)
MonthOfOrd(n, y, m) ==
    IF n > DaysBeforeMonth(y, m) + DaysInMonth(y, m) THEN MonthOfOrd(n, y, m + 1) ELSE m

Ord2Ymd(n) ==
    LET y == YearOfOrd(n, (n \div 366) + 1)
        r == n - DaysBeforeYear(y)
        m == MonthOfOrd(r, y, 1)
    IN  [year |-> y, month |-> m, day |-> r - DaysBeforeMonth(y, m)]

\* datetime - timedelta(days=k)
MinusDays(dt, k) == Ord2Ymd(Ymd2Ord(dt) - k)

\* dt.strftime("%Y-%m-%d")
Strftime(dt) == DateStr(dt.year, dt.month, dt.day)

DefaultDays == 30

\* variant: "one month ago" instead of 30 days ago
DefaultStartDateMonthAgo(current_date) ==
    Strftime(IF current_date.month = 1
             THEN [current_date EXCEPT !.year = @ - 1, !.month = 12]
             ELSE [current_date EXCEPT !.month = @ - 1])

DefaultStartDate(current_date) == Strftime(MinusDays(current_date, DefaultDays))
DefaultEndDate(current_date) == Strftime(current_date)

\* request.start_date or <default>   /   request.end_date or <default>
StartDate(req, current_date) ==
    IF Falsy(req.start_date) THEN DefaultStartDate(current_date) ELSE req.start_date
EndDate(req, current_date) ==
    IF Falsy(req.end_date) THEN DefaultEndDate(current_date) ELSE req.end_date

(***************************************************************************)
(* Earth Engine expressions built by the handlers (lazy, no remote call).  *)
(***************************************************************************)
CountryGeom(country_name) == [collection |-> countries, eq |-> country_name]

HistStart == DateStr(2019, 11, 1)
HistEnd == DateStr(2019, 11, 12)

S1Source(country_geom, start_date, end_date) ==
    [collection |-> "COPERNICUS/S1_GRD", bounds |-> country_geom,
     filterDate |-> <<start_date, end_date>>, band |-> "VV", test |-> "lt(-15)"]

LandsatSource(country_geom) ==
    [collection |-> "LANDSAT/LC08/C02/T1_L2", bounds |-> country_geom,
     filterDate |-> <<HistStart, HistEnd>>, band |-> "NDWI", test |-> "gt(0.3)"]

RainfallSource(country_geom, start_date, end_date) ==
    [collection |-> "NASA/GPM_L3/IMERG_V06", bounds |-> country_geom,
     filterDate |-> <<start_date, end_date>>, band |-> "precipitationCal",
     test |-> "gt(50)"]

\* variant: the historical branch filters by the request's dates
LayerImageDated(layer_type, country_geom, start_date, end_date) ==
    CASE layer_type = "current" ->
           [sources |-> <<S1Source(country_geom, start_date, end_date)>>,
            palette |-> "blue"]
      [] layer_type = "historical" ->
           [sources |-> <<[LandsatSource(country_geom) EXCEPT
                              !.filterDate = <<start_date, end_date>>]>>,
            palette |-> "cyan"]
      [] layer_type = "risk" ->
           [sources |-> <<RainfallSource(country_geom, start_date, end_date),
                          LandsatSource(country_geom)>>,
            palette |-> "red"]

\* the masked, clipped raster of each branch and the palette it is drawn with
LayerImage(layer_type, country_geom, start_date, end_date) ==
    CASE layer_type = "current" ->
           [sources |-> <<S1Source(country_geom, start_date, end_date)>>,
            palette |-> "blue"]
      [] layer_type = "historical" ->
           [sources |-> <<LandsatSource(country_geom)>>, palette |-> "cyan"]
      [] layer_type = "risk" ->
           [sources |-> <<RainfallSource(country_geom, start_date, end_date),
                          LandsatSource(country_geom)>>,
            palette |-> "red"]

\* rainfall_collection, whose size() is materialized first in the risk branch
RainfallCollection(country_geom, start_date, end_date) ==
    [sources |-> <<RainfallSource(country_geom, start_date, end_date)>>,
     palette |-> ""]

\* the key read from the reduceRegion dictionary
AreaBand(layer_type) == IF layer_type = "current" THEN "VV" ELSE "NDWI"

(***************************************************************************)
(* The remote catalog and the evaluation of                                *)
(* aggregate_array("ADM0_NAME").distinct().sort() on it.  A name is the    *)
(* sequence of its character codes; sort() orders names lexicographically. *)
(***************************************************************************)
Chad == <<67, 104>>
Kenya == <<75, 101>>
Kent == <<75>>
Names == {Chad, Kenya, Kent}

RECURSIVE SeqsUpTo(_, _)
SeqsUpTo(S, n) ==
    IF n = 0 THEN {<<>>}
    ELSE LET shorter == SeqsUpTo(S, n - 1)
         IN  shorter \cup {Append(q, x) : q \in shorter, x \in S}

\* possible contents of the ADM0_NAME column, one entry per feature
CatalogContents == SeqsUpTo(Names, MaxCatalogLen)

RECURSIVE LexLess(_, _)
LexLess(a, b) ==
    IF b = <<>> THEN FALSE
    ELSE IF a = <<>> THEN TRUE
    ELSE IF Head(a) # Head(b) THEN Head(a) < Head(b)
    ELSE LexLess(Tail(a), Tail(b))

Contains(q, x) == \E i \in 1..Len(q) : q[i] = x

RECURSIVE Distinct(_)
Distinct(q) ==
    IF q = <<>> THEN <<>>
    ELSE LET init == Distinct(SubSeq(q, 1, Len(q) - 1))
             last == q[Len(q)]
         IN  IF Contains(init, last) THEN init ELSE Append(init, last)

RECURSIVE Insert(_, _)
Insert(q, x) ==
    IF q = <<>> THEN <<x>>
    ELSE IF LexLess(x, Head(q)) THEN <<x>> \o q
    ELSE <<Head(q)>> \o Insert(Tail(q), x)

RECURSIVE Sort(_)
Sort(q) == IF q = <<>> THEN <<>> ELSE Insert(Sort(Tail(q)), Head(q))

\* variant: sort() without distinct()
CountryNamesNoDistinct(column) == Sort(column)

\* value of countries.aggregate_array("ADM0_NAME").distinct().sort()
CountryNames(column) == Sort(Distinct(column))

CountryNamesExpr == [collection |-> countries, column |-> "ADM0_NAME",
                     then |-> <<"distinct", "sort">>]

(***************************************************************************)
(* Replies of the remote backend.                                          *)
(***************************************************************************)
ErrMsgs == {"Quota exceeded", "Collection.first: Empty collection"}

Ok(v) == [ok |-> v]
Failed(msg) == [error |-> msg]
IsOk(reply) == DOMAIN reply = {"ok"}
IsFailed(reply) == DOMAIN reply = {"error"}
Failures == {Failed(m) : m \in ErrMsgs}

SizeReplies == {Ok(PyInt(n)) : n \in 0..MaxObs} \cup Failures

FeatureCollectionJson == [dict |-> "FeatureCollection"]
GeojsonReplies == {Ok(FeatureCollectionJson)} \cup Failures

TileUrlReplies == {Ok(PyStr("https://earthengine.googleapis.com/map/{z}/{x}/{y}"))}
                  \cup Failures

\* summed pixel area in square metres; null when the dictionary has no value
RawAreas == {k * 500000 : k \in 0..MaxRaw}
AreaReplies == {Ok(PyInt(raw)) : raw \in RawAreas} \cup {Ok(None)} \cup Failures

CountriesReplies == {Ok([list |-> CountryNames(col)]) : col \in CatalogContents}
                    \cup Failures

(***************************************************************************)
(* Exceptions and the HTTP responses made from them.                       *)
(***************************************************************************)
EEException(msg) == [type |-> "EEException", args |-> <<msg>>]
TypeError(msg) == [type |-> "TypeError", args |-> <<msg>>]
HTTPException(status_code, detail) ==
    [type |-> "HTTPException", status_code |-> status_code, detail |-> detail]

\* str(e): the single argument of an ordinary exception; for HTTPException
\* either "<status>: <detail>" or "" depending on the framework release
Str(e) ==
    IF e.type = "HTTPException"
    THEN IF http_str = "status: detail"
         THEN ToString(e.status_code) \o ": " \o e.detail
         ELSE ""
    ELSE e.args[1]

HttpError(e) == [code |-> e.status_code, detail |-> e.detail]

\* variant: the handler hides the cause
ExceptHandlerGeneric(e) == HttpError(HTTPException(500, "Internal Server Error"))

\* except Exception as e: raise HTTPException(status_code=500, detail=str(e))
ExceptHandler(e) == HttpError(HTTPException(500, Str(e)))

HttpOk(body) == [code |-> 200, body |-> body]
NoResponse == [code |-> 0]

(***************************************************************************)
(* The result dict of /flood_map.                                          *)
(***************************************************************************)
\* variant: the dict of a request that already returned is reused
InitResultLeaky(layer_type) ==
    LET returned == {c \in Conns : pc[c] = "done" /\ "geojson" \in DOMAIN result[c]}
    IN  IF returned = {}
        THEN [status |-> "success", layer |-> layer_type, geojson |-> None,
              tile_url |-> None, area_sqkm |-> None]
        ELSE [layer |-> layer_type] @@ result[CHOOSE c \in returned : TRUE]

InitResult(layer_type) ==
    [status |-> "success", layer |-> layer_type, geojson |-> None,
     tile_url |-> None, area_sqkm |-> None]

\* d.update(u): the keys of u are set in d, the other keys of d are kept
DictUpdate(d, u) == u @@ d

RECURSIVE Gcd(_, _)
Gcd(a, b) == IF b = 0 THEN a ELSE Gcd(b, a % b)

\* the quotient a / b as a fraction in lowest terms
Quotient(a, b) ==
    LET g == Gcd(a, b) IN [float |-> <<a \div g, b \div g>>]

SqM_per_SqKm == 1000000

\* variant: divides by 1e3
ToSqKmThousand(raw) == Quotient(raw, 1000)

\* <raw> / 1e6
ToSqKm(raw) == Quotient(raw, SqM_per_SqKm)

\* variant: the update leaves tile_url out
UpdateSuccessNoTile(res, geojson, tile_url, area) ==
    DictUpdate(res, [geojson |-> geojson, area_sqkm |-> area])

\* result.update({"geojson": ..., "tile_url": ..., "area_sqkm": ...})
UpdateSuccess(res, geojson, tile_url, area) ==
    DictUpdate(res, [geojson |-> geojson, tile_url |-> tile_url, area_sqkm |-> area])

NoDataMessage == "No GPM rainfall data available for this period and area"

\* result.update({"status": "error", "message": ...})
UpdateNoData(res) ==
    DictUpdate(res, [status |-> "error", message |-> NoDataMessage])

\* variant: >= 0
HasRainfallGe(n) == n >= 0

\* if rainfall_collection.size().getInfo() > 0
HasRainfall(n) == n > 0

LayerTypes == {"current", "historical", "risk"}

(***************************************************************************)
(* Requests.                                                               *)
(***************************************************************************)
CountryInputs == {PyStr(""), PyStr("Kenya")}
StartInputs == {None, DateStr(2024, 1, 5)}
EndInputs == {None, DateStr(2024, 2, 20)}
LayerInputs == LayerTypes \cup {"forecast"}

\* FloodMapRequest (lines 18-22)
FloodMapRequests ==
    [kind : {"flood_map"}, country_name : CountryInputs, start_date : StartInputs,
     end_date : EndInputs, layer_type : LayerInputs]

CountriesRequest == [kind |-> "countries"]
NoRequest == [kind |-> "none"]

\* values of datetime.now(): 30 days back crosses 29 February, or a new year
NowInputs == {[year |-> 2024, month |-> 3, day |-> 15],
              [year |-> 2025, month |-> 1, day |-> 10]}
NoTime == [year |-> 0, month |-> 0, day |-> 0]

NoLocals == [start_date |-> None, end_date |-> None, country_geom |-> None,
             geojson |-> None, tile_url |-> None]
NoResult == [status |-> "none"]

Init ==
    /\ countries = "FAO/GAUL/2015/level0"
    /\ http_str \in {"status: detail", ""}
    /\ pc = [c \in Conns |-> "idle"]
    /\ request = [c \in Conns |-> NoRequest]
    /\ now = [c \in Conns |-> NoTime]
    /\ locals = [c \in Conns |-> NoLocals]
    /\ result = [c \in Conns |-> NoResult]
    /\ calls = [c \in Conns |-> <<>>]
    /\ response = [c \in Conns |-> NoResponse]

\* one remote materialization call and what came back
Call(op, expr, key, reply) == [op |-> op, expr |-> expr, key |-> key, reply |-> reply]

\* the raster the three materializations of connection c work on
Image(c) ==
    LayerImage(request[c].layer_type, locals[c].country_geom,
               locals[c].start_date, locals[c].end_date)

(***************************************************************************)
(* GET /countries (lines 24-31).                                           *)
(***************************************************************************)
GetCountries(c) ==
    /\ pc[c] = "idle"
    /\ request' = [request EXCEPT ![c] = CountriesRequest]
    /\ pc' = [pc EXCEPT ![c] = "aggregate_array"]
    /\ UNCHANGED <<countries, http_str, now, locals, result, calls, response>>

CountriesGetInfo(c) ==
    /\ pc[c] = "aggregate_array"
    /\ \E reply \in CountriesReplies :
         /\ calls' = [calls EXCEPT
                        ![c] = Append(@, Call("getInfo", CountryNamesExpr, "", reply))]
         /\ response' = [response EXCEPT ![c] =
                IF IsOk(reply)
                THEN HttpOk([status |-> "success", countries |-> reply.ok])
                ELSE ExceptHandler(EEException(reply.error))]
    /\ pc' = [pc EXCEPT ![c] = "done"]
    /\ UNCHANGED <<countries, http_str, request, now, locals, result>>

(***************************************************************************)
(* POST /flood_map (lines 33-194).                                         *)
(***************************************************************************)
\* lines 36-58, 97, 135, 188-189: validation, dates, geometry, result, dispatch
PostFloodMap(c, req, current_date) ==
    /\ pc[c] = "idle"
    /\ request' = [request EXCEPT ![c] = req]
    /\ IF Falsy(req.country_name)
       THEN /\ response' = [response EXCEPT ![c] =
                   ExceptHandler(HTTPException(400, "Country name is required"))]
            /\ pc' = [pc EXCEPT ![c] = "done"]
            /\ UNCHANGED <<now, locals, result>>
       ELSE /\ now' = [now EXCEPT ![c] = current_date]
            /\ locals' = [locals EXCEPT ![c] =
                   [NoLocals EXCEPT !.start_date = StartDate(req, current_date),
                                    !.end_date = EndDate(req, current_date),
                                    !.country_geom = CountryGeom(req.country_name)]]
            /\ result' = [result EXCEPT ![c] = InitResult(req.layer_type)]
            /\ IF req.layer_type \in {"current", "historical"}
               THEN /\ pc' = [pc EXCEPT ![c] = "ee_to_geojson"]
                    /\ UNCHANGED response
               ELSE IF req.layer_type = "risk"
               THEN /\ pc' = [pc EXCEPT ![c] = "size"]
                    /\ UNCHANGED response
               ELSE /\ response' = [response EXCEPT ![c] =
                           ExceptHandler(HTTPException(400,
                              "Invalid layer_type. Use 'current', 'historical', or 'risk'"))]
                    /\ pc' = [pc EXCEPT ![c] = "done"]
    /\ UNCHANGED <<countries, http_str, calls>>

\* lines 137-144, 182-186: rainfall_collection.size().getInfo()
SizeGetInfo(c) ==
    /\ pc[c] = "size"
    /\ \E reply \in SizeReplies :
         /\ calls' = [calls EXCEPT ![c] = Append(@,
                Call("size", RainfallCollection(locals[c].country_geom,
                         locals[c].start_date, locals[c].end_date), "", reply))]
         /\ IF IsFailed(reply)
            THEN /\ response' = [response EXCEPT ![c] =
                        ExceptHandler(EEException(reply.error))]
                 /\ pc' = [pc EXCEPT ![c] = "done"]
                 /\ UNCHANGED result
            ELSE IF HasRainfall(reply.ok.int)
            THEN /\ pc' = [pc EXCEPT ![c] = "ee_to_geojson"]
                 /\ UNCHANGED <<result, response>>
            ELSE /\ result' = [result EXCEPT ![c] = UpdateNoData(@)]
                 /\ response' = [response EXCEPT ![c] = HttpOk(result'[c])]
                 /\ pc' = [pc EXCEPT ![c] = "done"]
    /\ UNCHANGED <<countries, http_str, request, now, locals>>

\* lines 69-77, 107-115, 155-163: geemap.ee_to_geojson(<vector>)
EeToGeojson(c) ==
    /\ pc[c] = "ee_to_geojson"
    /\ \E reply \in GeojsonReplies :
         /\ calls' = [calls EXCEPT ![c] =
                Append(@, Call("ee_to_geojson", Image(c), "", reply))]
         /\ IF IsFailed(reply)
            THEN /\ response' = [response EXCEPT ![c] =
                        ExceptHandler(EEException(reply.error))]
                 /\ pc' = [pc EXCEPT ![c] = "done"]
                 /\ UNCHANGED locals
            ELSE /\ locals' = [locals EXCEPT ![c].geojson = reply.ok]
                 /\ pc' = [pc EXCEPT ![c] = "get_image_tile_url"]
                 /\ UNCHANGED response
    /\ UNCHANGED <<countries, http_str, request, now, result>>

\* lines 80-81, 118-119, 166-167: geemap.get_image_tile_url(<image>, vis_params)
GetImageTileUrl(c) ==
    /\ pc[c] = "get_image_tile_url"
    /\ \E reply \in TileUrlReplies :
         /\ calls' = [calls EXCEPT ![c] =
                Append(@, Call("get_image_tile_url", Image(c), "", reply))]
         /\ IF IsFailed(reply)
            THEN /\ response' = [response EXCEPT ![c] =
                        ExceptHandler(EEException(reply.error))]
                 /\ pc' = [pc EXCEPT ![c] = "done"]
                 /\ UNCHANGED locals
            ELSE /\ locals' = [locals EXCEPT ![c].tile_url = reply.ok]
                 /\ pc' = [pc EXCEPT ![c] = "reduceRegion"]
                 /\ UNCHANGED response
    /\ UNCHANGED <<countries, http_str, request, now, result>>

\* lines 84-95, 122-133, 170-181, 191: <area>.getInfo() / 1e6, result.update, return
AreaGetInfo(c) ==
    /\ pc[c] = "reduceRegion"
    /\ \E reply \in AreaReplies :
         /\ calls' = [calls EXCEPT ![c] = Append(@,
                Call("reduceRegion", Image(c), AreaBand(request[c].layer_type), reply))]
         /\ IF IsFailed(reply)
            THEN /\ response' = [response EXCEPT ![c] =
                        ExceptHandler(EEException(reply.error))]
                 /\ UNCHANGED result
            ELSE IF reply.ok = None
            THEN /\ response' = [response EXCEPT ![c] = ExceptHandler(TypeError(
                        "unsupported operand type(s) for /: 'NoneType' and 'float'"))]
                 /\ UNCHANGED result
            ELSE /\ result' = [result EXCEPT ![c] =
                        UpdateSuccess(@, locals[c].geojson, locals[c].tile_url,
                                      ToSqKm(reply.ok.int))]
                 /\ response' = [response EXCEPT ![c] = HttpOk(result'[c])]
    /\ pc' = [pc EXCEPT ![c] = "done"]
    /\ UNCHANGED <<countries, http_str, request, now, locals>>

\* the response has been sent; the connection carries the next request
Finish(c) ==
    /\ pc[c] = "done"
    /\ pc' = [pc EXCEPT ![c] = "idle"]
    /\ request' = [request EXCEPT ![c] = NoRequest]
    /\ now' = [now EXCEPT ![c] = NoTime]
    /\ locals' = [locals EXCEPT ![c] = NoLocals]
    /\ result' = [result EXCEPT ![c] = NoResult]
    /\ calls' = [calls EXCEPT ![c] = <<>>]
    /\ response' = [response EXCEPT ![c] = NoResponse]
    /\ UNCHANGED <<countries, http_str>>

Next ==
    \E c \in Conns :
        \/ GetCountries(c)
        \/ CountriesGetInfo(c)
        \/ \E req \in FloodMapRequests, current_date \in NowInputs :
               PostFloodMap(c, req, current_date)
        \/ SizeGetInfo(c)
        \/ EeToGeojson(c)
        \/ GetImageTileUrl(c)
        \/ AreaGetInfo(c)
        \/ Finish(c)

Spec == Init /\ [][Next]_vars

(***************************************************************************)
(* Properties.                                                             *)
(***************************************************************************)
Done(c) == pc[c] = "done"
IsFlood(c) == request[c].kind = "flood_map"
IsCountries(c) == request[c].kind = "countries"
Replies(c) == [i \in 1..Len(calls[c]) |-> calls[c][i].reply]
Succeeded(c) ==
    /\ Done(c) /\ IsFlood(c) /\ response[c].code = 200
    /\ response[c].body.status = "success"

\* C1: a /flood_map request whose country_name is empty is answered with
\* status code 400, whatever its other fields are.
C1_EmptyCountryIs400 ==
    \A c \in Conns :
        (Done(c) /\ IsFlood(c) /\ request[c].country_name = PyStr(""))
            => response[c].code = 400

\* C2: a /flood_map request with a non-empty country_name and a layer_type
\* outside {current, historical, risk} is answered with status code 400.
C2_InvalidLayerIs400 ==
    \A c \in Conns :
        (Done(c) /\ IsFlood(c) /\ request[c].country_name # PyStr("")
                 /\ request[c].layer_type \notin LayerTypes)
            => response[c].code = 400

\* a risk request whose size query answered 0
NoRainfall(c) ==
    /\ IsFlood(c) /\ request[c].layer_type = "risk"
    /\ Len(calls[c]) >= 1
    /\ calls[c][1].op = "size"
    /\ calls[c][1].reply = Ok(PyInt(0))

\* C3: a risk request whose size query answers 0 gets HTTP 200 with
\* status "error" and a non-empty message, and the size query is the only
\* remote call the handler makes.
C3_NoRainfallIsStructuredError ==
    \A c \in Conns :
        NoRainfall(c) =>
            /\ Done(c)
            /\ Len(calls[c]) = 1
            /\ response[c].code = 200
            /\ response[c].body.status = "error"
            /\ "message" \in DOMAIN response[c].body
            /\ response[c].body.message # ""

C3_Witness == \E c \in Conns : NoRainfall(c) /\ Done(c) /\ response[c].code = 200

\* C4: in a returned result for a recognized layer_type, status "success"
\* comes with geojson, tile_url and area_sqkm all non-null, and status
\* "error" with all three null.
C4_AllOrNothing ==
    \A c \in Conns :
        (Done(c) /\ IsFlood(c) /\ response[c].code = 200
                 /\ request[c].layer_type \in LayerTypes) =>
            LET b == response[c].body IN
            /\ b.status \in {"success", "error"}
            /\ b.status = "success" =>
                  (b.geojson # None /\ b.tile_url # None /\ b.area_sqkm # None)
            /\ b.status = "error" =>
                  (b.geojson = None /\ b.tile_url = None /\ b.area_sqkm = None)

C4_Witness ==
    \E c, d \in Conns :
        /\ Succeeded(c)
        /\ Done(d) /\ IsFlood(d) /\ response[d].code = 200
        /\ response[d].body.status = "error"

\* the date windows a remote call's expression filters by
Windows(call) ==
    {call.expr.sources[i].filterDate : i \in 1..Len(call.expr.sources)}

IsHistorical(c) == IsFlood(c) /\ request[c].layer_type = "historical"

Min(x, y) == IF x < y THEN x ELSE y

\* C5: a historical request always queries the window 2019-11-01 to
\* 2019-11-12; two historical requests for the same country issue the same
\* remote queries whatever their dates, and with the same replies they get
\* the same response.
C5_HistoricalIgnoresDates ==
    \A c, d \in Conns :
        (IsHistorical(c) /\ IsHistorical(d)
            /\ request[c].country_name = request[d].country_name) =>
            /\ \A i \in 1..Len(calls[c]) :
                   Windows(calls[c][i]) = {<<DateStr(2019, 11, 1), DateStr(2019, 11, 12)>>}
            /\ \A i \in 1..Min(Len(calls[c]), Len(calls[d])) :
                   /\ calls[c][i].op = calls[d][i].op
                   /\ calls[c][i].expr = calls[d][i].expr
                   /\ calls[c][i].key = calls[d][i].key
            /\ (Done(c) /\ Done(d) /\ Replies(c) = Replies(d))
                   => response[c] = response[d]

C5_Witness ==
    \E c, d \in Conns :
        /\ IsHistorical(c) /\ IsHistorical(d)
        /\ request[c].country_name = request[d].country_name
        /\ request[c].start_date # request[d].start_date
        /\ request[c].end_date # request[d].end_date
        /\ Succeeded(c) /\ Succeeded(d)
        /\ Replies(c) = Replies(d)

\* calendar stepping, written apart from the handler's date arithmetic
MonthLen(y, m) ==
    LET table == <<31, 28, 31, 30, 31, 30, 31, 31, 30, 31, 30, 31>>
    IN  IF m = 2 /\ (y % 400 = 0 \/ (y % 4 = 0 /\ y % 100 # 0)) THEN 29 ELSE table[m]

NextDay(t) ==
    IF t[3] < MonthLen(t[1], t[2]) THEN <<t[1], t[2], t[3] + 1>>
    ELSE IF t[2] < 12 THEN <<t[1], t[2] + 1, 1>>
    ELSE <<t[1] + 1, 1, 1>>

RECURSIVE PlusDays(_, _)
PlusDays(t, k) == IF k = 0 THEN t ELSE PlusDays(NextDay(t), k - 1)

\* window ends on the day of `current_date` and starts exactly 30 days earlier
IsLast30Days(window, current_date) ==
    /\ DOMAIN window[1] = {"date"} /\ DOMAIN window[2] = {"date"}
    /\ window[2].date = <<current_date.year, current_date.month, current_date.day>>
    /\ PlusDays(window[1].date, 30) = window[2].date

DatesOmitted(c) ==
    IsFlood(c) /\ request[c].start_date = None /\ request[c].end_date = None

\* C6 as stated: when start_date and end_date are omitted, the date window
\* of the remote query spans exactly 30 days and ends at the current date.
C6_EveryQueryUsesLast30Days ==
    \A c \in Conns :
        DatesOmitted(c) =>
            \A i \in 1..Len(calls[c]) :
                \A w \in Windows(calls[c][i]) : IsLast30Days(w, now[c])

\* C6 amended: when start_date and end_date are omitted (and country_name
\* is not empty), the handler's start_date and end_date are the date 30
\* days before now and the date of now; that window is the one of the
\* radar collection (current) and of the precipitation collection (risk)
\* in every remote query, while the Landsat collection (historical, risk)
\* keeps the window 2019-11-01 to 2019-11-12.
C6_DefaultWindow ==
    \A c \in Conns :
        (DatesOmitted(c) /\ request[c].country_name # PyStr("")) =>
            /\ IsLast30Days(<<locals[c].start_date, locals[c].end_date>>, now[c])
            /\ \A i \in 1..Len(calls[c]) :
                 \A k \in 1..Len(calls[c][i].expr.sources) :
                    LET src == calls[c][i].expr.sources[k] IN
                    IF src.collection = "LANDSAT/LC08/C02/T1_L2"
                    THEN src.filterDate = <<DateStr(2019, 11, 1), DateStr(2019, 11, 12)>>
                    ELSE IsLast30Days(src.filterDate, now[c])

C6_Witness ==
    \E c, d \in Conns :
        /\ DatesOmitted(c) /\ request[c].layer_type = "current" /\ Len(calls[c]) = 3
        /\ DatesOmitted(d) /\ request[d].layer_type = "risk" /\ Len(calls[d]) = 4
        /\ now[c] # now[d]

\* C7: in every success result area_sqkm is non-negative and equals the
\* raw summed area the backend reported for that request divided by
\* 1,000,000.
C7_AreaIsRawOverMillion ==
    \A c \in Conns :
        Succeeded(c) =>
            LET last == calls[c][Len(calls[c])]
                area == response[c].body.area_sqkm
            IN  /\ last.op = "reduceRegion"
                /\ DOMAIN area = {"float"}
                /\ area.float[2] > 0
                /\ area.float[1] >= 0
                /\ area.float[1] * 1000000 = last.reply.ok.int * area.float[2]

C7_Witness ==
    \E c, d \in Conns :
        /\ Succeeded(c) /\ response[c].body.area_sqkm.float = <<3, 2>>
        /\ Succeeded(d) /\ response[d].body.area_sqkm.float = <<0, 1>>
        /\ request[c].layer_type # request[d].layer_type

\* name x comes strictly before name y in lexicographic order
Precedes(x, y) ==
    \E k \in 1..Len(y) :
        /\ \A j \in 1..(k - 1) : j <= Len(x) /\ x[j] = y[j]
        /\ (k > Len(x) \/ x[k] < y[k])

\* C8: a successful /countries response lists the names in ascending order
\* without duplicates, and every /countries request makes its own query of
\* the remote catalog, whose reply is what it returns.
C8_CountriesSortedDistinctFresh ==
    \A c \in Conns :
        (Done(c) /\ IsCountries(c)) =>
            /\ Len(calls[c]) = 1
            /\ calls[c][1].op = "getInfo"
            /\ calls[c][1].expr.collection = countries
            /\ response[c].code = 200 =>
                 LET names == response[c].body.countries.list IN
                 /\ calls[c][1].reply = Ok(response[c].body.countries)
                 /\ \A i, j \in 1..Len(names) : i < j => Precedes(names[i], names[j])

C8_Witness ==
    \E c, d \in Conns :
        /\ Done(c) /\ IsCountries(c) /\ response[c].code = 200
        /\ Done(d) /\ IsCountries(d) /\ response[d].code = 200
        /\ Len(response[c].body.countries.list) = 3
        /\ response[d].body.countries # response[c].body.countries

\* C9: when a remote call fails, it is the last remote call of that
\* request, no call is repeated, and the response is HTTP 500 whose detail
\* is the backend's message.
C9_FailureSurfacesAtOnce ==
    \A c \in Conns :
        /\ \A i, j \in 1..Len(calls[c]) : i < j => calls[c][i].op # calls[c][j].op
        /\ \A i \in 1..Len(calls[c]) :
              IsFailed(calls[c][i].reply) =>
                  /\ i = Len(calls[c])
                  /\ Done(c)
                  /\ response[c] = [code |-> 500, detail |-> calls[c][i].reply.error]

C9_Witness ==
    \E c, d \in Conns :
        /\ IsFlood(c) /\ Len(calls[c]) = 3 /\ IsFailed(calls[c][3].reply)
        /\ IsCountries(d) /\ Len(calls[d]) = 1 /\ IsFailed(calls[d][1].reply)

\* equal requests with equal backend replies got equal responses
Determined ==
    \A c, d \in Conns :
        (Done(c) /\ Done(d) /\ request[c] = request[d] /\ Replies(c) = Replies(d))
            => response[c] = response[d]

\* C10: whatever the interleaving of requests, a response depends only on
\* the request's own fields and the replies to its own remote calls, and
\* the catalog reference is never modified.
C10_NoSharedState ==
    /\ []Determined
    /\ [][countries' = countries]_vars

C10_Witness ==
    \E c, d \in Conns :
        /\ c # d
        /\ Done(c) /\ Done(d) /\ IsFlood(c) /\ request[c] = request[d]
        /\ request[c].layer_type = "risk"
        /\ now[c] # now[d]
        /\ Replies(c) = Replies(d)
        /\ Len(calls[c]) = 4

====
